---- MODULE Spec2Model ----
(***************************************************************************)
(* State-machine model of holy-engine-base/main.go: the frame loop         *)
(* (processInput -> updateEngine -> renderScene), the GLFW callbacks, the  *)
(* fixed-step physics integrator, the hand tool and the immediate-mode UI. *)
(*                                                                         *)
(* Numeric representation                                                  *)
(*   time      : float32 seconds, held as an integer count of 2^-30 s; the *)
(*               float32 rounding of every sum and difference is applied   *)
(*               (F32Round), so the accumulator is bit-exact for inputs    *)
(*               that are multiples of 2^-30 s.                            *)
(*   length    : 1/120000 m (so Gravity*dt*dt = 327 units exactly).        *)
(*   velocity  : length units per physics step (1/2000 m/s).               *)
(*   direction : 1/1000 (cameraFront, ray directions).                     *)
(*   angle     : yaw and pitch in 1/10 degree, cursor in pixels.           *)
(*   scale     : 1/1000.                                                   *)
(***************************************************************************)
EXTENDS Integers, Sequences, FiniteSets, TLC

\* ------------------------------------------------------------------ bounds
\* frames the main loop is followed for
MaxFrames == 3
\* callbacks delivered by one PollEvents call
MaxEvents == 3
\* widget evaluations counted per press and per release
SeenCap == 2
\* consecutive updatePhysics steps followed in the physics specifications
MaxSteps == 70
\* frames per run in the two-run accumulator specification
MaxRunFrames == 3

\* ------------------------------------------------------- program constants
screenWidth == 1280
screenHeight == 720
\* cameraSpeed 5.0 m/s, in length units per second
cameraSpeed == 600000
\* Gravity * PhysicsTimestep, in velocity units: -9.81/60 m/s = -327/2000 m/s
GravityStep == -327
\* float32(1.0/60.0) = 8947849 * 2^-29 s, in 2^-30 s
PhysicsTimestep == 17895698
GroundPlaneY == 0
\* ThrowForceMagnitude 10.0 m/s, in velocity units
ThrowForceMagnitude == 20000
\* PickupRange 10.0 m
PickupRange == 1200000
InitialHoldDistance == 240000
MinHoldDistance == 120000
MaxHoldDistance == 600000
\* ScrollSensitivity 0.1 m per scroll unit
ScrollSensitivity == 12000
uiPanelWidth == 250
uiPadding == 10
uiButtonHeight == 30
uiSliderHeight == 20
uiElementSpacing == 5
uiTextHeight == 16

\* scales of the fixed-point representation
LenScale == 120000
DirScale == 1000
ScaleOne == 1000

\* --------------------------------------------------------------- float32
Abs(n) == IF n < 0 THEN -n ELSE n
Max2(a, b) == IF a >= b THEN a ELSE b
Min2(a, b) == IF a <= b THEN a ELSE b

\* 2^24: a float32 significand holds 24 bits
F32Mantissa == 16777216

RECURSIVE F32Quantum(_, _)
\* the spacing of float32 values around magnitude n (in 2^-30 s): the smallest
\* power of two q with n < 2^24 * q
F32Quantum(n, q) == IF n < F32Mantissa * q THEN q ELSE F32Quantum(n, 2 * q)

\* round-to-nearest-even of a non-negative tick count to a float32 value
F32Round(n) ==
    LET q == F32Quantum(n, 1)
        r == n % q
        lo == n - r
    IN IF 2 * r < q THEN lo
       ELSE IF 2 * r > q THEN lo + q
       ELSE IF (lo \div q) % 2 = 0 THEN lo ELSE lo + q

F32Add(a, b) == F32Round(a + b)
F32Sub(a, b) == F32Round(a - b)

\* ---------------------------------------------------------------- vectors
Vec3(x, y, z) == <<x, y, z>>
Zero3 == <<0, 0, 0>>
VAdd(a, b) == <<a[1] + b[1], a[2] + b[2], a[3] + b[3]>>
VSub(a, b) == <<a[1] - b[1], a[2] - b[2], a[3] - b[3]>>
\* v * (num/den), each component rounded toward zero
MulDiv(a, num, den) ==
    IF a >= 0 THEN (a * num) \div den ELSE -(((-a) * num) \div den)
VMulDiv(v, num, den) ==
    <<MulDiv(v[1], num, den), MulDiv(v[2], num, den), MulDiv(v[3], num, den)>>
Dot(a, b) == a[1] * b[1] + a[2] * b[2] + a[3] * b[3]
Cross(a, b) ==
    <<a[2] * b[3] - a[3] * b[2], a[3] * b[1] - a[1] * b[3], a[1] * b[2] - a[2] * b[1]>>

RECURSIVE ISqrtIter(_, _, _)
ISqrtIter(n, lo, hi) ==
    IF lo >= hi THEN lo
    ELSE LET mid == (lo + hi + 1) \div 2
         IN IF mid * mid <= n THEN ISqrtIter(n, mid, hi) ELSE ISqrtIter(n, lo, mid - 1)
ISqrt(n) == ISqrtIter(n, 0, 46340)

\* mgl32 Vec3.Normalize, result in 1/DirScale
Normalize(v) ==
    LET len == ISqrt(Dot(v, v))
    IN IF len = 0 THEN v ELSE VMulDiv(v, DirScale, len)

\* sine of an angle given in 1/10 degree, in 1/DirScale (Bhaskara's rational
\* approximation of math.Sin, exact at the multiples of 90 degrees)
SinDeci(a) ==
    LET m == a % 3600
        h == IF m >= 1800 THEN m - 1800 ELSE m
        p == h * (1800 - h)
        s == (4 * p * 100) \div ((4050000 - p) \div 10)
    IN IF m >= 1800 THEN -s ELSE s
CosDeci(a) == SinDeci(a + 900)

cameraUp == <<0, DirScale, 0>>

\* lines 441-447 of updateCameraAndProjection: cameraFront from yaw and pitch
FrontFromAngles(yw, pt) ==
    Normalize(<<(CosDeci(yw) * CosDeci(pt)) \div DirScale,
                SinDeci(pt),
                (SinDeci(yw) * CosDeci(pt)) \div DirScale>>)

\* tan(45 deg / 2) of the projection of getRayFromMouse, in 1/DirScale
TanHalfFov == 414
\* +Inf of intersectRayAABB's tMax
TInf == 2000000000

\* ------------------------------------------------------------ game objects
\* createGameObject: the fields the runtime core reads and writes
createGameObject(id, initialPos, bbMin, bbMax) ==
    [ID |-> id, Position |-> initialPos, Rotation |-> Zero3,
     Scale |-> <<ScaleOne, ScaleOne, ScaleOne>>,
     Velocity |-> Zero3, AngularVelocity |-> Zero3,
     IsKinematic |-> FALSE, IsGrounded |-> FALSE,
     BBMin |-> bbMin, BBMax |-> bbMax]

HalfUnit == LenScale \div 2
CubeMin == <<-HalfUnit, -HalfUnit, -HalfUnit>>
CubeMax == <<HalfUnit, HalfUnit, HalfUnit>>

\* createGroundPlane: appended first, scaled 100 x 1 x 100, kinematic
createGroundPlane(a) ==
    LET g == createGameObject("GroundPlane", <<0, GroundPlaneY, 0>>,
                              <<-HalfUnit, 0, -HalfUnit>>, <<HalfUnit, 0, HalfUnit>>)
    IN [a EXCEPT !.objects = Append(@, [g EXCEPT !.Scale = <<100 * ScaleOne, ScaleOne, 100 * ScaleOne>>,
                                                 !.IsKinematic = TRUE]),
                 !.nextObjectID = @ + 1]

\* createPrimitive("cube" | "sphere", initialPos): the sphere is a cube with
\* another ID; the new object becomes the selected object. The result's
\* last object is the one returned.
createPrimitive(a, shapeType, initialPos) ==
    LET id == (IF shapeType = "cube" THEN "Cube_" ELSE "Sphere_") \o ToString(a.nextObjectID)
        o == createGameObject(id, initialPos, CubeMin, CubeMax)
    IN [a EXCEPT !.objects = Append(@, o),
                 !.nextObjectID = @ + 1,
                 !.selectedObject = Len(a.objects) + 1]

\* ------------------------------------------------------------------ camera
updateCameraAndProjection(a) ==
    [a EXCEPT !.cameraFront = FrontFromAngles(a.yaw, a.pitch)]

\* ------------------------------------------------------------- ray picking
\* getRayFromMouse: the direction through the cursor's pixel
getRayDirection(a) ==
    LET ex == ((2 * a.mousePosX - screenWidth) * TanHalfFov) \div screenHeight
        ey == ((screenHeight - 2 * a.mousePosY) * TanHalfFov) \div screenHeight
        right == Normalize(VMulDiv(Cross(a.cameraFront, cameraUp), 1, DirScale))
        up == VMulDiv(Cross(right, a.cameraFront), 1, DirScale)
    IN Normalize(VAdd(a.cameraFront,
                      VAdd(VMulDiv(right, ex, DirScale), VMulDiv(up, ey, DirScale))))

\* (num / d) for a direction component d in 1/DirScale, rounded toward zero
RayT(num, d) ==
    LET s == IF (num < 0) = (d < 0) THEN 1 ELSE -1
    IN IF Abs(num) > 2000000 THEN s * ((Abs(num) \div Abs(d)) * DirScale)
       ELSE s * ((Abs(num) * DirScale) \div Abs(d))

RECURSIVE SlabAxes(_, _, _, _, _, _, _)
\* the loop of intersectRayAABB from axis i on
SlabAxes(i, tMin, tMax, o, d, bMin, bMax) ==
    IF i > 3 THEN [hit |-> TRUE, dist |-> tMin]
    ELSE IF d[i] = 0
         THEN IF o[i] < bMin[i] \/ o[i] > bMax[i]
              THEN [hit |-> FALSE, dist |-> 0]
              ELSE SlabAxes(i + 1, tMin, tMax, o, d, bMin, bMax)
         ELSE LET ta == RayT(bMin[i] - o[i], d[i])
                  tb == RayT(bMax[i] - o[i], d[i])
                  t1 == Min2(ta, tb)
                  t2 == Max2(ta, tb)
                  nMin == Max2(tMin, t1)
                  nMax == Min2(tMax, t2)
              IN IF nMin > nMax THEN [hit |-> FALSE, dist |-> 0]
                 ELSE SlabAxes(i + 1, nMin, nMax, o, d, bMin, bMax)

RECURSIVE SlabAxesNoSwap(_, _, _, _, _, _, _)
\* a variant of the loop that takes the min plane as the near one on every axis
SlabAxesNoSwap(i, tMin, tMax, o, d, bMin, bMax) ==
    IF i > 3 THEN [hit |-> TRUE, dist |-> tMin]
    ELSE IF d[i] = 0
         THEN IF o[i] < bMin[i] \/ o[i] > bMax[i]
              THEN [hit |-> FALSE, dist |-> 0]
              ELSE SlabAxesNoSwap(i + 1, tMin, tMax, o, d, bMin, bMax)
         ELSE LET nMin == Max2(tMin, RayT(bMin[i] - o[i], d[i]))
                  nMax == Min2(tMax, RayT(bMax[i] - o[i], d[i]))
              IN IF nMin > nMax THEN [hit |-> FALSE, dist |-> 0]
                 ELSE SlabAxesNoSwap(i + 1, nMin, nMax, o, d, bMin, bMax)
intersectRayAABBNoSwap(rayOrigin, rayDirection, boxMin, boxMax) ==
    SlabAxesNoSwap(1, 0, TInf, rayOrigin, rayDirection, boxMin, boxMax)
intersectRayAABB(rayOrigin, rayDirection, boxMin, boxMax) ==
    SlabAxes(1, 0, TInf, rayOrigin, rayDirection, boxMin, boxMax)

\* component-wise product of a local box corner and the scale
ScaleCorner(c, sc) ==
    <<MulDiv(c[1], sc[1], ScaleOne), MulDiv(c[2], sc[2], ScaleOne), MulDiv(c[3], sc[3], ScaleOne)>>

RECURSIVE PickLoopLastHit(_, _, _, _, _, _)
\* a variant of the loop that keeps the last object hit within range
PickLoopLastHit(a, i, o, d, closestHit, hitObject) ==
    IF i > Len(a.objects) THEN hitObject
    ELSE LET obj == a.objects[i]
         IN IF obj.ID = "GroundPlane" \/ i = a.heldObject
            THEN PickLoopLastHit(a, i + 1, o, d, closestHit, hitObject)
            ELSE LET r == intersectRayAABB(o, d,
                              VAdd(obj.Position, ScaleCorner(obj.BBMin, obj.Scale)),
                              VAdd(obj.Position, ScaleCorner(obj.BBMax, obj.Scale)))
                 IN IF r.hit /\ r.dist < PickupRange
                    THEN PickLoopLastHit(a, i + 1, o, d, r.dist, i)
                    ELSE PickLoopLastHit(a, i + 1, o, d, closestHit, hitObject)
RECURSIVE PickLoop(_, _, _, _, _, _)
\* the loop of tryPickObject over a.objects from index i on
PickLoop(a, i, o, d, closestHit, hitObject) ==
    IF i > Len(a.objects) THEN hitObject
    ELSE LET obj == a.objects[i]
         IN IF obj.ID = "GroundPlane" \/ i = a.heldObject
            THEN PickLoop(a, i + 1, o, d, closestHit, hitObject)
            ELSE LET r == intersectRayAABB(o, d,
                              VAdd(obj.Position, ScaleCorner(obj.BBMin, obj.Scale)),
                              VAdd(obj.Position, ScaleCorner(obj.BBMax, obj.Scale)))
                 IN IF r.hit /\ r.dist < PickupRange /\ r.dist < closestHit
                    THEN PickLoop(a, i + 1, o, d, r.dist, i)
                    ELSE PickLoop(a, i + 1, o, d, closestHit, hitObject)

\* the object the pick ray selects, 0 for none
PickTarget(a) ==
    PickLoop(a, 1, a.cameraPos, getRayDirection(a), PickupRange + LenScale, 0)

\* a variant that leaves the picked object's motion as it is
tryPickObjectKeepMotion(a) ==
    LET h == PickTarget(a)
    IN IF h = 0 THEN a
       ELSE [a EXCEPT !.heldObject = h, !.objects[h].IsKinematic = TRUE]
tryPickObject(a) ==
    LET h == PickTarget(a)
    IN IF h = 0 THEN a
       ELSE [a EXCEPT !.heldObject = h,
                      !.objects[h].IsKinematic = TRUE,
                      !.objects[h].Velocity = Zero3,
                      !.objects[h].AngularVelocity = Zero3]

\* a variant that clears the angular velocity whatever the rotation state
releaseHeldObjectClearSpin(a) ==
    IF a.heldObject = 0 THEN a
    ELSE LET h == a.heldObject
         IN [a EXCEPT !.objects[h].IsKinematic = FALSE,
                      !.objects[h].Velocity =
                          VMulDiv(Normalize(a.cameraFront), ThrowForceMagnitude, DirScale),
                      !.objects[h].AngularVelocity = Zero3,
                      !.heldObject = 0,
                      !.isRotatingHeldObject = FALSE]
releaseHeldObject(a) ==
    IF a.heldObject = 0 THEN a
    ELSE LET h == a.heldObject
         IN [a EXCEPT !.objects[h].IsKinematic = FALSE,
                      !.objects[h].Velocity =
                          VMulDiv(Normalize(a.cameraFront), ThrowForceMagnitude, DirScale),
                      !.objects[h].AngularVelocity =
                          IF ~a.isRotatingHeldObject THEN Zero3 ELSE @,
                      !.heldObject = 0,
                      !.isRotatingHeldObject = FALSE]

\* ----------------------------------------------------------------- physics
\* a variant whose ground contact keeps the vertical velocity
DynamicStepKeepFall(obj) ==
    LET v1 == [obj.Velocity EXCEPT ![2] = @ + GravityStep]
        p1 == VAdd(obj.Position, v1)
        bottom == MulDiv(obj.BBMin[2], obj.Scale[2], ScaleOne)
    IN IF p1[2] + bottom < GroundPlaneY
       THEN [obj EXCEPT !.Position = [p1 EXCEPT ![2] = GroundPlaneY - bottom],
                        !.Rotation = VAdd(obj.Rotation, obj.AngularVelocity),
                        !.Velocity = <<MulDiv(v1[1], 9, 10), v1[2], MulDiv(v1[3], 9, 10)>>,
                        !.AngularVelocity = VMulDiv(obj.AngularVelocity, 9, 10),
                        !.IsGrounded = TRUE]
       ELSE [obj EXCEPT !.Position = p1,
                        !.Rotation = VAdd(obj.Rotation, obj.AngularVelocity),
                        !.Velocity = v1, !.IsGrounded = FALSE]
\* a variant whose ground contact snaps the origin, not the lowest point
DynamicStepSnapOrigin(obj) ==
    LET v1 == [obj.Velocity EXCEPT ![2] = @ + GravityStep]
        p1 == VAdd(obj.Position, v1)
        bottom == MulDiv(obj.BBMin[2], obj.Scale[2], ScaleOne)
    IN IF p1[2] + bottom < GroundPlaneY
       THEN [obj EXCEPT !.Position = [p1 EXCEPT ![2] = GroundPlaneY],
                        !.Rotation = VAdd(obj.Rotation, obj.AngularVelocity),
                        !.Velocity = <<MulDiv(v1[1], 9, 10), 0, MulDiv(v1[3], 9, 10)>>,
                        !.AngularVelocity = VMulDiv(obj.AngularVelocity, 9, 10),
                        !.IsGrounded = TRUE]
       ELSE [obj EXCEPT !.Position = p1,
                        !.Rotation = VAdd(obj.Rotation, obj.AngularVelocity),
                        !.Velocity = v1, !.IsGrounded = FALSE]
\* a variant whose ground contact begins when the lowest point touches the plane
DynamicStepGroundedOnTouch(obj) ==
    LET v1 == [obj.Velocity EXCEPT ![2] = @ + GravityStep]
        p1 == VAdd(obj.Position, v1)
        r1 == VAdd(obj.Rotation, obj.AngularVelocity)
        bottom == MulDiv(obj.BBMin[2], obj.Scale[2], ScaleOne)
        lowestPointY == p1[2] + bottom
    IN IF lowestPointY <= GroundPlaneY
       THEN [obj EXCEPT !.Position = [p1 EXCEPT ![2] = GroundPlaneY - bottom],
                        !.Rotation = r1,
                        !.Velocity = <<MulDiv(v1[1], 9, 10), 0, MulDiv(v1[3], 9, 10)>>,
                        !.AngularVelocity = VMulDiv(obj.AngularVelocity, 9, 10),
                        !.IsGrounded = TRUE]
       ELSE [obj EXCEPT !.Position = p1, !.Rotation = r1, !.Velocity = v1,
                        !.IsGrounded = FALSE]
\* a non-kinematic object's turn in the loop of updatePhysics(PhysicsTimestep)
DynamicStep(obj) ==
    LET v1 == [obj.Velocity EXCEPT ![2] = @ + GravityStep]
        p1 == VAdd(obj.Position, v1)
        r1 == VAdd(obj.Rotation, obj.AngularVelocity)
        bottom == MulDiv(obj.BBMin[2], obj.Scale[2], ScaleOne)
        lowestPointY == p1[2] + bottom
    IN IF lowestPointY < GroundPlaneY
       THEN [obj EXCEPT !.Position = [p1 EXCEPT ![2] = GroundPlaneY - bottom],
                        !.Rotation = r1,
                        !.Velocity = <<MulDiv(v1[1], 9, 10), 0, MulDiv(v1[3], 9, 10)>>,
                        !.AngularVelocity = VMulDiv(obj.AngularVelocity, 9, 10),
                        !.IsGrounded = TRUE]
       ELSE [obj EXCEPT !.Position = p1, !.Rotation = r1, !.Velocity = v1,
                        !.IsGrounded = FALSE]

\* a variant that skips kinematic objects without clearing their motion
PhysicsObjectSkipKinematic(obj) ==
    IF obj.IsKinematic THEN obj ELSE DynamicStep(obj)
\* one object's turn in the loop of updatePhysics(PhysicsTimestep)
PhysicsObject(obj) ==
    IF obj.IsKinematic
    THEN [obj EXCEPT !.Velocity = Zero3, !.AngularVelocity = Zero3]
    ELSE DynamicStep(obj)

updatePhysics(a) ==
    [a EXCEPT !.objects = [i \in 1..Len(a.objects) |-> PhysicsObject(a.objects[i])]]

RECURSIVE PhysicsLoop(_, _)
\* the while loop of updateEngine; n counts the updatePhysics calls made
PhysicsLoop(a, n) ==
    IF a.physicsAccumulator >= PhysicsTimestep
    THEN PhysicsLoop([updatePhysics(a) EXCEPT
                         !.physicsAccumulator = F32Sub(a.physicsAccumulator, PhysicsTimestep)],
                     n + 1)
    ELSE [app |-> a, steps |-> n]

\* AngularVelocity * deltaTime in rotation units (deltaTime in 2^-30 s)
SpinOver(w, deltaTime) ==
    VMulDiv(VMulDiv(w, 60, 1024), deltaTime \div 1024, 1024)

\* a variant that holds the object at the initial distance
HoldFixupFixedDistance(a, deltaTime) ==
    IF a.heldObject = 0 THEN a
    ELSE LET h == a.heldObject
             targetPos == VAdd(a.cameraPos,
                               VMulDiv(a.cameraFront, InitialHoldDistance, DirScale))
         IN [a EXCEPT !.objects[h].Position = targetPos,
                      !.objects[h].IsKinematic = TRUE,
                      !.objects[h].Rotation =
                          IF a.isRotatingHeldObject
                          THEN VAdd(@, SpinOver(a.objects[h].AngularVelocity, deltaTime))
                          ELSE @]
\* the held-object part of updateEngine
HoldFixup(a, deltaTime) ==
    IF a.heldObject = 0 THEN a
    ELSE LET h == a.heldObject
             targetPos == VAdd(a.cameraPos, VMulDiv(a.cameraFront, a.holdDistance, DirScale))
         IN [a EXCEPT !.objects[h].Position = targetPos,
                      !.objects[h].IsKinematic = TRUE,
                      !.objects[h].Rotation =
                          IF a.isRotatingHeldObject
                          THEN VAdd(@, SpinOver(a.objects[h].AngularVelocity, deltaTime))
                          ELSE @]

AccumulateAndStep(a, deltaTime) ==
    PhysicsLoop([a EXCEPT !.physicsAccumulator = F32Add(@, deltaTime)], 0)

updateEngine(a, deltaTime) ==
    HoldFixup(AccumulateAndStep(a, deltaTime).app, deltaTime)

\* --------------------------------------------------------- GLFW callbacks
Clamp(v, lo, hi) == IF v < lo THEN lo ELSE IF v > hi THEN hi ELSE v

\* a variant that clamps the pitch from above only
SetCursorPosCallbackNoLowerClamp(a, xpos, ypos) ==
    LET a1 == [a EXCEPT !.mousePosX = xpos, !.mousePosY = ypos]
    IN IF a1.isMouseGrabbed /\ ~a1.isRotatingHeldObject /\ a1.activeUIElement = ""
       THEN LET lastX == IF a1.firstMouse THEN xpos ELSE a1.mouseLastX
                lastY == IF a1.firstMouse THEN ypos ELSE a1.mouseLastY
                xoffset == xpos - lastX
                yoffset == lastY - ypos
            IN updateCameraAndProjection(
                   [a1 EXCEPT !.firstMouse = FALSE,
                              !.mouseLastX = xpos, !.mouseLastY = ypos,
                              !.yaw = @ + xoffset,
                              !.pitch = Min2(@ + yoffset, 890)])
       ELSE IF a1.isRotatingHeldObject
       THEN LET lastX == IF a1.firstMouse THEN xpos ELSE a1.lastMouseXForRotation
                lastY == IF a1.firstMouse THEN ypos ELSE a1.lastMouseYForRotation
                xoffset == xpos - lastX
                yoffset == lastY - ypos
                a2 == [a1 EXCEPT !.lastMouseXForRotation = xpos,
                                 !.lastMouseYForRotation = ypos]
            IN IF a2.heldObject # 0
               THEN [a2 EXCEPT !.objects[a2.heldObject].AngularVelocity =
                                   <<yoffset * 100, xoffset * 100, 0>>]
               ELSE a2
       ELSE [a1 EXCEPT !.firstMouse = TRUE]
SetCursorPosCallback(a, xpos, ypos) ==
    LET a1 == [a EXCEPT !.mousePosX = xpos, !.mousePosY = ypos]
    IN IF a1.isMouseGrabbed /\ ~a1.isRotatingHeldObject /\ a1.activeUIElement = ""
       THEN LET lastX == IF a1.firstMouse THEN xpos ELSE a1.mouseLastX
                lastY == IF a1.firstMouse THEN ypos ELSE a1.mouseLastY
                xoffset == xpos - lastX
                yoffset == lastY - ypos
            IN updateCameraAndProjection(
                   [a1 EXCEPT !.firstMouse = FALSE,
                              !.mouseLastX = xpos, !.mouseLastY = ypos,
                              !.yaw = @ + xoffset,
                              !.pitch = Clamp(@ + yoffset, -890, 890)])
       ELSE IF a1.isRotatingHeldObject
       THEN LET lastX == IF a1.firstMouse THEN xpos ELSE a1.lastMouseXForRotation
                lastY == IF a1.firstMouse THEN ypos ELSE a1.lastMouseYForRotation
                xoffset == xpos - lastX
                yoffset == lastY - ypos
                a2 == [a1 EXCEPT !.lastMouseXForRotation = xpos,
                                 !.lastMouseYForRotation = ypos]
            IN IF a2.heldObject # 0
               THEN [a2 EXCEPT !.objects[a2.heldObject].AngularVelocity =
                                   <<yoffset * 100, xoffset * 100, 0>>]
               ELSE a2
       ELSE [a1 EXCEPT !.firstMouse = TRUE]

\* a variant that leaves the released flag to the end of the frame
MouseLeftPressKeepReleased(a) ==
    LET a1 == [a EXCEPT !.mouseLeftPressed = TRUE]
    IN IF a1.isMouseGrabbed /\ a1.activeUIElement = "" THEN tryPickObject(a1) ELSE a1
\* SetMouseButtonCallback, button == MouseButtonLeft, action == Press
MouseLeftPress(a) ==
    LET a1 == [a EXCEPT !.mouseLeftPressed = TRUE, !.mouseLeftReleased = FALSE]
    IN IF a1.isMouseGrabbed /\ a1.activeUIElement = "" THEN tryPickObject(a1) ELSE a1

\* a variant that leaves activeUIElement to the widgets
MouseLeftReleaseKeepActive(a) ==
    LET a1 == [a EXCEPT !.mouseLeftReleased = TRUE, !.mouseLeftPressed = FALSE]
    IN IF a1.heldObject # 0 THEN releaseHeldObject(a1) ELSE a1
\* SetMouseButtonCallback, button == MouseButtonLeft, action == Release
MouseLeftRelease(a) ==
    LET a1 == [a EXCEPT !.mouseLeftReleased = TRUE, !.mouseLeftPressed = FALSE,
                        !.activeUIElement = ""]
    IN IF a1.heldObject # 0 THEN releaseHeldObject(a1) ELSE a1

\* a variant that clamps only from below
SetScrollCallbackNoUpperClamp(a, yoff) ==
    IF a.heldObject # 0
    THEN [a EXCEPT !.holdDistance = Max2(@ - yoff * ScrollSensitivity, MinHoldDistance)]
    ELSE a
SetScrollCallback(a, yoff) ==
    IF a.heldObject # 0
    THEN [a EXCEPT !.holdDistance =
                       Clamp(@ - yoff * ScrollSensitivity, MinHoldDistance, MaxHoldDistance)]
    ELSE a

\* ------------------------------------------------------------ processInput
\* ESC toggles the mouse grab (level-triggered: every frame the key is down)
InputEscape(a, k) ==
    IF ~k.esc THEN a
    ELSE IF a.isMouseGrabbed
         THEN LET a1 == [a EXCEPT !.isMouseGrabbed = FALSE, !.firstMouse = TRUE]
              IN IF a1.heldObject # 0 THEN releaseHeldObject(a1) ELSE a1
         ELSE [a EXCEPT !.isMouseGrabbed = TRUE, !.firstMouse = TRUE]

\* a variant that opens the spawn menu without releasing the held object
InputEKeyKeepHeld(a, k) ==
    LET a1 ==
          IF k.e /\ ~a.eKeyWasPressed
          THEN [a EXCEPT !.isEGUIVisible = ~@, !.isMouseGrabbed = a.isEGUIVisible,
                         !.firstMouse = TRUE]
          ELSE a
    IN [a1 EXCEPT !.eKeyWasPressed = k.e]
\* the E key opens and closes the spawn menu on its press edge
InputEKey(a, k) ==
    LET a1 ==
          IF k.e /\ ~a.eKeyWasPressed
          THEN LET v == ~a.isEGUIVisible
                   a2 == [a EXCEPT !.isEGUIVisible = v, !.isMouseGrabbed = ~v]
                   a3 == IF v /\ a2.heldObject # 0 THEN releaseHeldObject(a2) ELSE a2
               IN [a3 EXCEPT !.firstMouse = TRUE]
          ELSE a
    IN [a1 EXCEPT !.eKeyWasPressed = k.e]

\* the R key starts and stops rotating the held object
InputRKey(a, k) ==
    IF a.heldObject = 0 THEN a
    ELSE IF k.r
         THEN IF ~a.isRotatingHeldObject
              THEN [a EXCEPT !.isRotatingHeldObject = TRUE,
                             !.lastMouseXForRotation = a.mousePosX,
                             !.lastMouseYForRotation = a.mousePosY]
              ELSE a
         ELSE [a EXCEPT !.isRotatingHeldObject = FALSE]

\* cameraSpeed * deltaTime with the sprint factors, in length units
MoveSpeed(k, deltaTime) ==
    LET f == (IF k.shift THEN 2 ELSE 1) * (IF k.caps THEN 5 ELSE 1)
    IN (f * (cameraSpeed \div 64) * (deltaTime \div 4096)) \div 4096

\* a variant that moves the camera whatever the widgets do
InputMoveOverUI(a, k, deltaTime) ==
    IF a.isMouseGrabbed /\ ~a.isRotatingHeldObject
    THEN LET ms == MoveSpeed(k, deltaTime)
             p1 == IF k.w THEN VAdd(a.cameraPos, VMulDiv(a.cameraFront, ms, DirScale))
                   ELSE a.cameraPos
             p2 == IF k.s THEN VSub(p1, VMulDiv(a.cameraFront, ms, DirScale)) ELSE p1
         IN updateCameraAndProjection([a EXCEPT !.cameraPos = p2])
    ELSE a
\* WASD camera movement
InputMove(a, k, deltaTime) ==
    IF a.isMouseGrabbed /\ ~a.isRotatingHeldObject /\ a.activeUIElement = ""
    THEN LET ms == MoveSpeed(k, deltaTime)
             right(f) == Normalize(VMulDiv(Cross(f, cameraUp), 1, DirScale))
             p1 == IF k.w THEN VAdd(a.cameraPos, VMulDiv(a.cameraFront, ms, DirScale))
                   ELSE a.cameraPos
             p2 == IF k.s THEN VSub(p1, VMulDiv(a.cameraFront, ms, DirScale)) ELSE p1
             p3 == IF k.a THEN VSub(p2, VMulDiv(right(a.cameraFront), ms, DirScale)) ELSE p2
             p4 == IF k.d THEN VAdd(p3, VMulDiv(right(a.cameraFront), ms, DirScale)) ELSE p3
         IN updateCameraAndProjection([a EXCEPT !.cameraPos = p4])
    ELSE a

\* processInput after PollEvents has returned
processInput(a, k, deltaTime) ==
    InputMove(InputRKey(InputEKey(InputEscape(a, k), k), k), k, deltaTime)

\* ------------------------------------------------------ immediate-mode UI
\* The widget operators thread a frame context w = [app, log, clicked]:
\* app is the AppCore state, clicked the last handleButton's return value and
\* log the record of this frame's widget calls (what each call saw and did).

isMouseOver(a, x, y, width, height) ==
    /\ a.mousePosX >= x /\ a.mousePosX <= x + width
    /\ a.mousePosY >= y /\ a.mousePosY <= y + height

\* a variant that reports a click without looking at the active element
handleButtonAnyRelease(w, x, y, width, height, label) ==
    LET a == w.app
        isOver == isMouseOver(a, x, y, width, height)
        a1 == IF isOver /\ a.mouseLeftPressed THEN [a EXCEPT !.activeUIElement = label] ELSE a
        clicked == isOver /\ a1.mouseLeftReleased
    IN [app |-> a1, clicked |-> clicked,
        log |-> Append(w.log, [kind |-> "button", id |-> label, isOver |-> isOver,
                               pressed |-> a.mouseLeftPressed,
                               released |-> a.mouseLeftReleased,
                               before |-> a.activeUIElement,
                               after |-> a1.activeUIElement, clicked |-> clicked])]
handleButton(w, x, y, width, height, label) ==
    LET a == w.app
        isOver == isMouseOver(a, x, y, width, height)
        a1 == IF isOver /\ a.mouseLeftPressed THEN [a EXCEPT !.activeUIElement = label] ELSE a
        clicked == isOver /\ a1.mouseLeftReleased /\ a1.activeUIElement = label
    IN [app |-> a1, clicked |-> clicked,
        log |-> Append(w.log, [kind |-> "button", id |-> label, isOver |-> isOver,
                               pressed |-> a.mouseLeftPressed,
                               released |-> a.mouseLeftReleased,
                               before |-> a.activeUIElement,
                               after |-> a1.activeUIElement, clicked |-> clicked])]

\* min + n * range for n in 1/10000, without leaving 32 bits
SliderValue(n, min, max) ==
    min + n * ((max - min) \div 10000) + (n * ((max - min) % 10000)) \div 10000

\* a variant that maps the pointer onto [0, max - min]
handleSliderFromZero(w, x, y, width, height, id, field, comp, min, max) ==
    LET a == w.app
        sel == a.selectedObject
        isOver == isMouseOver(a, x, y, width, height)
        n == ((a.mousePosX - x) * 10000) \div width
        nv == Clamp(SliderValue(n, 0, max - min), min, max)
        a1 == IF a.activeUIElement = id
              THEN IF field = "Position"
                   THEN [a EXCEPT !.objects[sel].Position[comp] = nv]
                   ELSE [a EXCEPT !.objects[sel].Scale[comp] = nv]
              ELSE a
        a2 == IF isOver /\ a1.mouseLeftPressed /\ a1.activeUIElement = ""
              THEN [a1 EXCEPT !.activeUIElement = id] ELSE a1
    IN [app |-> a2, clicked |-> FALSE,
        log |-> Append(w.log, [kind |-> "slider", id |-> id, isOver |-> isOver,
                               pressed |-> a.mouseLeftPressed,
                               released |-> a.mouseLeftReleased,
                               before |-> a.activeUIElement,
                               after |-> a2.activeUIElement, clicked |-> FALSE])]
\* handleSlider bound to objects[sel].<field>[comp]
handleSlider(w, x, y, width, height, id, field, comp, min, max) ==
    LET a == w.app
        sel == a.selectedObject
        isOver == isMouseOver(a, x, y, width, height)
        n == ((a.mousePosX - x) * 10000) \div width
        nv == Clamp(SliderValue(n, min, max), min, max)
        a1 == IF a.activeUIElement = id
              THEN IF field = "Position"
                   THEN [a EXCEPT !.objects[sel].Position[comp] = nv]
                   ELSE [a EXCEPT !.objects[sel].Scale[comp] = nv]
              ELSE a
        a2 == IF isOver /\ a1.mouseLeftPressed /\ a1.activeUIElement = ""
              THEN [a1 EXCEPT !.activeUIElement = id] ELSE a1
    IN [app |-> a2, clicked |-> FALSE,
        log |-> Append(w.log, [kind |-> "slider", id |-> id, isOver |-> isOver,
                               pressed |-> a.mouseLeftPressed,
                               released |-> a.mouseLeftReleased,
                               before |-> a.activeUIElement,
                               after |-> a2.activeUIElement, clicked |-> FALSE])]

\* label of an object's row in the scene list
ObjectLabel(a, i) ==
    a.objects[i].ID \o (IF i = a.selectedObject THEN " (Selected)" ELSE "")
                    \o (IF i = a.heldObject THEN " (Held)" ELSE "")

RECURSIVE ObjectListLoop(_, _, _)
\* the scene-list loop of drawCustomUI from object i on, rows starting at currentY
ObjectListLoop(w, i, currentY) ==
    IF i > Len(w.app.objects) THEN w
    ELSE IF w.app.objects[i].ID = "GroundPlane" THEN ObjectListLoop(w, i + 1, currentY)
    ELSE LET w1 == handleButton(w, uiPadding + uiPadding, currentY,
                                uiPanelWidth - uiPadding * 2, uiButtonHeight,
                                ObjectLabel(w.app, i))
             w2 == IF w1.clicked THEN [w1 EXCEPT !.app.selectedObject = i] ELSE w1
         IN ObjectListLoop(w2, i + 1, currentY + uiButtonHeight + uiElementSpacing)

PosMin == -20 * LenScale
PosMax == 20 * LenScale
\* the scale sliders run from 0.01 to 5.0
ScaleMin == 10
ScaleMax == 5000

\* the "Is Kinematic" toggle of the properties panel
KinematicToggle(w, x, y) ==
    LET a == w.app
        sel == a.selectedObject
    IN IF sel = a.heldObject THEN w
       ELSE LET w1 == handleButton(w, x, y, uiPanelWidth - uiPadding * 2, uiButtonHeight,
                                   IF a.objects[sel].IsKinematic
                                   THEN "Is Kinematic: true" ELSE "Is Kinematic: false")
            IN IF ~w1.clicked THEN w1
               ELSE IF w1.app.objects[sel].IsKinematic
                    THEN [w1 EXCEPT !.app.objects[sel].IsKinematic = FALSE,
                                    !.app.objects[sel].Velocity = Zero3,
                                    !.app.objects[sel].AngularVelocity = Zero3]
                    ELSE [w1 EXCEPT !.app.objects[sel].IsKinematic = TRUE]

\* the properties panel of drawCustomUI
PropertiesPanel(w) ==
    IF w.app.selectedObject = 0 THEN w
    ELSE LET x == (screenWidth - uiPanelWidth - uiPadding) + uiPadding
             sw == uiPanelWidth - uiPadding * 2
             row == uiSliderHeight + uiElementSpacing
             y1 == uiPadding + uiPadding + uiTextHeight + uiElementSpacing + uiElementSpacing
             y2 == y1 + row + uiElementSpacing
             y3 == y2 + row + uiElementSpacing
             y4 == y3 + uiSliderHeight + uiElementSpacing * 2 + uiElementSpacing
             y5 == y4 + row + uiElementSpacing
             y6 == y5 + row + uiElementSpacing
             yk == y6 + uiSliderHeight + uiElementSpacing * 2
                      + 6 * (uiTextHeight + uiElementSpacing)
             s1 == handleSlider(w, x, y1, sw, uiSliderHeight, "pos_x", "Position", 1, PosMin, PosMax)
             s2 == handleSlider(s1, x, y2, sw, uiSliderHeight, "pos_y", "Position", 2, PosMin, PosMax)
             s3 == handleSlider(s2, x, y3, sw, uiSliderHeight, "pos_z", "Position", 3, PosMin, PosMax)
             s4 == handleSlider(s3, x, y4, sw, uiSliderHeight, "scale_x", "Scale", 1, ScaleMin, ScaleMax)
             s5 == handleSlider(s4, x, y5, sw, uiSliderHeight, "scale_y", "Scale", 2, ScaleMin, ScaleMax)
             s6 == handleSlider(s5, x, y6, sw, uiSliderHeight, "scale_z", "Scale", 3, ScaleMin, ScaleMax)
         IN KinematicToggle(s6, x, yk)

drawCustomUI(w) ==
    LET w1 == handleButton(w, uiPadding + uiPadding, uiPadding + uiPadding,
                           uiPanelWidth - uiPadding * 2, uiButtonHeight,
                           "Import Model (.holym) - Not Supported")
        listY == uiPadding + uiButtonHeight + uiElementSpacing + uiTextHeight + uiElementSpacing
    IN PropertiesPanel(ObjectListLoop(w1, 1, listY))

\* what a click on a spawn button does
SpawnAndGrab(a, shapeType) ==
    LET spawnPos == VAdd(a.cameraPos, VMulDiv(a.cameraFront, InitialHoldDistance, DirScale))
        a1 == createPrimitive(a, shapeType, spawnPos)
    IN [a1 EXCEPT !.heldObject = Len(a1.objects),
                  !.isEGUIVisible = FALSE,
                  !.isMouseGrabbed = TRUE]

drawEGUI(w) ==
    LET panelX == (screenWidth - 400) \div 2
        panelY == (screenHeight - 300) \div 2
        gridStartX == panelX + uiPadding
        gridStartY == panelY + uiPadding + uiTextHeight + uiElementSpacing
        w1 == handleButton(w, gridStartX, gridStartY, 80, 80, "Spawn Cube Button")
        w2 == IF w1.clicked THEN [w1 EXCEPT !.app = SpawnAndGrab(w1.app, "cube")] ELSE w1
        w3 == handleButton(w2, gridStartX + 80 + 10, gridStartY, 80, 80, "Spawn Sphere Button")
    IN IF w3.clicked THEN [w3 EXCEPT !.app = SpawnAndGrab(w3.app, "sphere")] ELSE w3

\* the widget part of renderScene
renderScene(a) ==
    LET w1 == drawCustomUI([app |-> a, clicked |-> FALSE, log |-> <<>>])
    IN IF a.isEGUIVisible THEN drawEGUI(w1) ELSE w1

\* ------------------------------------------------------------------ state
VARIABLES
    app,        \* the AppCore singleton
    pc,         \* where the main loop is: "poll" (inside PollEvents), "engine", "render"
    frame,      \* frames completed
    events,     \* callbacks delivered by the current PollEvents
    buttonDown, \* the physical state of the left mouse button
    deltaTime,  \* this frame's deltaTime (0 outside the loop body)
    uiLog,      \* the widget calls of the renderScene that has just run
    op,         \* history: the operation that produced this state
    prev,       \* history: the AppCore state that operation started from
    steps,      \* history: the updatePhysics calls that operation made
    menuOpenedHolding, \* history: the object that was held when this frame's
                \* processInput opened the spawn menu, 0 if it did not
    start,      \* history: the AppCore state the run started from
    twin,       \* a second run of the program from the same start (SpecRuns),
                \* with both runs' elapsed time, frame and step counts
    hist,       \* history of the left button: whether it has been pressed and
                \* released, and in how many widget evaluations the pressed and
                \* the released flag have been seen set since the last press
                \* and the last release (counted up to SeenCap)
    call        \* a function called on its own: its name, arguments, result

vars == <<app, pc, frame, events, buttonDown, deltaTime, uiLog, op, prev, steps,
          menuOpenedHolding, start, twin, hist, call>>

\* initApp up to createGroundPlane
initApp ==
    createGroundPlane(
      [physicsAccumulator |-> 0,
       cameraPos |-> <<0, 2 * LenScale, 5 * LenScale>>,
       cameraFront |-> <<0, 0, -DirScale>>,
       yaw |-> -900, pitch |-> 0,
       firstMouse |-> TRUE, mouseLastX |-> 0, mouseLastY |-> 0,
       isMouseGrabbed |-> TRUE,
       objects |-> <<>>, selectedObject |-> 0, nextObjectID |-> 0,
       heldObject |-> 0, holdDistance |-> InitialHoldDistance,
       isRotatingHeldObject |-> FALSE,
       lastMouseXForRotation |-> 0, lastMouseYForRotation |-> 0,
       mouseLeftPressed |-> FALSE, mouseLeftReleased |-> FALSE,
       mousePosX |-> 0, mousePosY |-> 0,
       activeUIElement |-> "",
       isEGUIVisible |-> FALSE, eKeyWasPressed |-> FALSE])

\* ----------------------------------------------------------------- inputs
\* cursor positions: the screen centre, the first scene-list row and the two
\* ends of the pos_y slider track
Centre == <<640, 360>>
ListRow == <<100, 80>>
TrackStart == <<1030, 85>>
TrackEnd == <<1260, 85>>
\* inside the Cube and the Sphere tile of the spawn menu
CubeTile == <<490, 280>>
SphereTile == <<580, 280>>
CursorPoints == {Centre, ListRow, TrackStart, TrackEnd}
ScrollSteps == {-15, 15}
NoKeys == [esc |-> FALSE, e |-> FALSE, r |-> FALSE, w |-> FALSE, s |-> FALSE,
           a |-> FALSE, d |-> FALSE, shift |-> FALSE, caps |-> FALSE]
KeyEsc == [NoKeys EXCEPT !.esc = TRUE]
KeyE == [NoKeys EXCEPT !.e = TRUE]
KeyR == [NoKeys EXCEPT !.r = TRUE]
KeyW == [NoKeys EXCEPT !.w = TRUE]
KeySets == {NoKeys, KeyEsc, KeyE, KeyR, KeyW}
\* frame times: 2^-7 s and float32(1/60) s
FrameDeltas == {8388608, 17895698}
\* where the primitive factory has put a cube: in front of the camera in the
\* air, and resting on the ground
CubeInAir == <<0, 2 * LenScale, 0>>
CubeOnGround == <<0, HalfUnit, 0>>

RECURSIVE Populate(_, _)
\* the scene after createPrimitive("cube", p) for each p of spots
Populate(a, spots) ==
    IF spots = <<>> THEN a
    ELSE Populate(createPrimitive(a, "cube", Head(spots)), Tail(spots))

\* the bookkeeping of the two runs at their start
TwinOf(a) ==
    [app |-> a, totalA |-> 0, totalB |-> 0, framesA |-> 0, framesB |-> 0,
     stepsA |-> 0, stepsB |-> 0]

\* no press and no release yet
NoHist == [pressed |-> FALSE, pressedSeen |-> 0, released |-> FALSE, releasedSeen |-> 0]
NoCall == [name |-> "none"]

\* the main loop about to start a frame in one of the states `apps`
InitFrom(apps) ==
    /\ app \in apps
    /\ start = app
    /\ twin = TwinOf(app)
    /\ hist = NoHist
    /\ call = NoCall
    /\ pc = "poll"
    /\ frame = 0
    /\ events = 0
    /\ buttonDown = FALSE
    /\ deltaTime = 0
    /\ uiLog = <<>>
    /\ op = "init"
    /\ prev = initApp
    /\ steps = 0
    /\ menuOpenedHolding = 0

\* the state after construction, with the scene one of `scenes`
InitWith(scenes) == InitFrom({Populate(initApp, sc) : sc \in scenes})

\* ---------------------------------------------------------------- actions
\* a callback delivered inside PollEvents; c records its argument
Callback(name, a, c) ==
    /\ pc = "poll" /\ frame < MaxFrames /\ events < MaxEvents
    /\ app' = a
    /\ prev' = app
    /\ op' = name
    /\ steps' = 0
    /\ events' = events + 1
    /\ uiLog' = <<>>
    /\ menuOpenedHolding' = 0
    /\ call' = c
    /\ UNCHANGED <<pc, frame, deltaTime, start, twin>>

CursorPos(points) ==
    /\ \E p \in points : Callback("cursor", SetCursorPosCallback(app, p[1], p[2]), NoCall)
    /\ UNCHANGED <<buttonDown, hist>>

MousePress ==
    /\ ~buttonDown
    /\ Callback("press", MouseLeftPress(app), NoCall)
    /\ buttonDown' = TRUE
    /\ hist' = [hist EXCEPT !.pressed = TRUE, !.pressedSeen = 0]

MouseRelease ==
    /\ buttonDown
    /\ Callback("release", MouseLeftRelease(app), NoCall)
    /\ buttonDown' = FALSE
    /\ hist' = [hist EXCEPT !.released = TRUE, !.releasedSeen = 0]

Scroll(offsets) ==
    /\ \E yoff \in offsets : Callback("scroll", SetScrollCallback(app, yoff),
                                       [name |-> "scroll", yoff |-> yoff])
    /\ UNCHANGED <<buttonDown, hist>>

\* PollEvents returns; the rest of processInput runs
ProcessInput(keys, deltas) ==
    /\ pc = "poll" /\ frame < MaxFrames
    /\ \E k \in keys, dt \in deltas :
          /\ app' = processInput(app, k, dt)
          /\ deltaTime' = dt
          /\ call' = [name |-> "processInput", keys |-> k]
          /\ menuOpenedHolding' =
                IF k.e /\ ~app.eKeyWasPressed /\ ~app.isEGUIVisible
                THEN InputEscape(app, k).heldObject ELSE 0
    /\ prev' = app
    /\ op' = "input"
    /\ steps' = 0
    /\ pc' = "engine"
    /\ uiLog' = <<>>
    /\ UNCHANGED <<frame, events, buttonDown, start, twin, hist>>

UpdateEngine ==
    /\ pc = "engine"
    /\ app' = updateEngine(app, deltaTime)
    /\ prev' = app
    /\ op' = "engine"
    /\ steps' = AccumulateAndStep(app, deltaTime).steps
    /\ pc' = "render"
    /\ uiLog' = <<>>
    /\ call' = NoCall
    /\ UNCHANGED <<frame, events, buttonDown, deltaTime, menuOpenedHolding, start, twin,
                   hist>>

\* renderScene, then the end of the loop body (mouseLeftReleased = false)
RenderScene ==
    /\ pc = "render"
    /\ LET w == renderScene(app)
       IN /\ app' = [w.app EXCEPT !.mouseLeftReleased = FALSE]
          /\ uiLog' = w.log
    /\ prev' = app
    /\ op' = "render"
    /\ steps' = 0
    /\ pc' = "poll"
    /\ frame' = frame + 1
    /\ events' = 0
    /\ deltaTime' = 0
    /\ hist' = [hist EXCEPT
                    !.pressedSeen = IF hist.pressed /\ app.mouseLeftPressed
                                    THEN Min2(@ + 1, SeenCap) ELSE @,
                    !.releasedSeen = IF hist.released /\ app.mouseLeftReleased
                                     THEN Min2(@ + 1, SeenCap) ELSE @]
    /\ UNCHANGED <<buttonDown, menuOpenedHolding, start, twin, call>>

\* the whole program under every input of the sets above
Init == InitWith({<<>>, <<CubeInAir>>, <<CubeOnGround>>})
Next ==
    \/ CursorPos(CursorPoints)
    \/ MousePress
    \/ MouseRelease
    \/ Scroll(ScrollSteps)
    \/ ProcessInput(KeySets, FrameDeltas)
    \/ UpdateEngine
    \/ RenderScene
Spec == Init /\ [][Next]_vars

\* the widgets under the pointer: a scene with one cube, cursor and button only
InitUI == InitWith({<<CubeOnGround>>})
NextUI ==
    \/ CursorPos({ListRow, TrackStart, CubeTile, SphereTile})
    \/ MousePress
    \/ MouseRelease
    \/ ProcessInput({NoKeys, KeyE}, {PhysicsTimestep})
    \/ UpdateEngine
    \/ RenderScene
SpecUI == InitUI /\ [][NextUI]_vars

\* the hand tool: a cube in front of the camera, the cursor at the centre and
\* on the list row, the scroll wheel, the E and R keys
InitHand == InitWith({<<CubeInAir>>})
NextHand ==
    \/ CursorPos({Centre, ListRow})
    \/ MousePress
    \/ MouseRelease
    \/ Scroll({15})
    \/ ProcessInput({NoKeys, KeyE, KeyR}, {PhysicsTimestep})
    \/ UpdateEngine
    \/ RenderScene
SpecHand == InitHand /\ [][NextHand]_vars

\* one slider: a selected cube, the mouse released from the camera by a frame
\* with ESC down, the cursor on the row of the scale_x slider left of the
\* track, at its start, at 0.1 and 0.5 of it, at its end and right of it; the
\* button goes down at the start of the track
SliderTrackX == 1030
SliderTrackWidth == 230
SliderRowY == 150
SliderStops == {-30, 0, 23, 115, 230, 240}
InitSlider ==
    InitFrom({processInput(Populate(initApp, <<CubeOnGround>>), KeyEsc, PhysicsTimestep)})
PressAtTrackStart ==
    /\ app.mousePosX = SliderTrackX /\ app.mousePosY = SliderRowY
    /\ MousePress
NextSlider ==
    \/ CursorPos({<<SliderTrackX + dx, SliderRowY>> : dx \in SliderStops})
    \/ PressAtTrackStart
    \/ MouseRelease
    \/ ProcessInput({NoKeys}, {PhysicsTimestep})
    \/ UpdateEngine
    \/ RenderScene
SpecSlider == InitSlider /\ [][NextSlider]_vars

\* the camera against the widgets: the mouse grabbed, the cursor on the list
\* row and at the centre, the button and the W key
InitPriority == InitWith({<<CubeOnGround>>})
NextPriority ==
    \/ CursorPos({ListRow, Centre})
    \/ MousePress
    \/ MouseRelease
    \/ ProcessInput({NoKeys, KeyW}, {PhysicsTimestep})
    \/ UpdateEngine
    \/ RenderScene
SpecPriority == InitPriority /\ [][NextPriority]_vars

\* the scroll wheel: the same cube, the cursor at the centre, the button and
\* the wheel turned either way
InitScroll == InitWith({<<CubeInAir>>})
NextScroll ==
    \/ CursorPos({Centre})
    \/ MousePress
    \/ MouseRelease
    \/ Scroll(ScrollSteps)
    \/ ProcessInput({NoKeys}, {PhysicsTimestep})
    \/ UpdateEngine
    \/ RenderScene
SpecScroll == InitScroll /\ [][NextScroll]_vars

\* the position sliders and a cube outside their range: the factory's cube
\* carried 25 m down the -Z axis and put on the ground, or let go 25 m up; the
\* cursor on the row of the pos_y slider, at the start and in the middle of
\* the track
CubeFarOut == <<0, HalfUnit, -25 * LenScale>>
CubeHighUp == <<0, 25 * LenScale, 0>>
InitClamp == InitWith({<<CubeOnGround>>, <<CubeFarOut>>, <<CubeHighUp>>})
NextClamp ==
    \/ CursorPos({TrackStart, <<1145, 85>>})
    \/ MousePress
    \/ MouseRelease
    \/ ProcessInput({NoKeys}, {PhysicsTimestep})
    \/ UpdateEngine
    \/ RenderScene
SpecClamp == InitClamp /\ [][NextClamp]_vars

\* mouse-look and the rotation of a held object: the cube in front of the
\* camera, the R key, and a cursor that the disabled cursor mode lets travel
\* far beyond the window
LookPoints == {Centre, <<640, -700>>, <<100, 1500>>}
InitLook == InitWith({<<CubeInAir>>})
NextLook ==
    \/ CursorPos(LookPoints)
    \/ MousePress
    \/ MouseRelease
    \/ ProcessInput({NoKeys, KeyR}, {PhysicsTimestep})
    \/ UpdateEngine
    \/ RenderScene
SpecLook == InitLook /\ [][NextLook]_vars

\* the order of a frame: a cube in the air up and to the left of the camera,
\* where the pick ray through the first scene-list row meets it; the mouse
\* grabbed, the cursor on that row and at the centre, the button and the W key
CubeBehindPanel == <<-5 * HalfUnit, (13 * HalfUnit) \div 2, 2 * HalfUnit>>
InitOrder == InitWith({<<CubeBehindPanel>>})
NextOrder ==
    \/ CursorPos({ListRow, Centre})
    \/ MousePress
    \/ MouseRelease
    \/ ProcessInput({NoKeys, KeyW}, {PhysicsTimestep})
    \/ UpdateEngine
    \/ RenderScene
SpecOrder == InitOrder /\ [][NextOrder]_vars

\* a click on a button: the scene with one cube, the mouse grabbed or let go
\* by a frame with ESC down, the pointer brought onto the first scene-list
\* row and kept there, the button going down only with the pointer on the row
InitClick ==
    InitFrom({Populate(initApp, <<CubeOnGround>>),
              processInput(Populate(initApp, <<CubeOnGround>>), KeyEsc, PhysicsTimestep)})
PressOnListRow ==
    /\ app.mousePosX = ListRow[1] /\ app.mousePosY = ListRow[2]
    /\ MousePress
NextClick ==
    \/ CursorPos({ListRow})
    \/ PressOnListRow
    \/ MouseRelease
    \/ ProcessInput({NoKeys}, {PhysicsTimestep})
    \/ UpdateEngine
    \/ RenderScene
SpecClick == InitClick /\ [][NextClick]_vars

\* the spawn menu's grab: the scene with a cube in front of the camera, the
\* menu opened by a frame with E down, the pointer on a tile, and the tile's
\* click branch of drawEGUI taken; the main loop goes on from the next frame
\* with the new object in the hand and the button up
MenuOpenAt(p) ==
    SetCursorPosCallback(processInput(Populate(initApp, <<CubeInAir>>), KeyE, PhysicsTimestep),
                         p[1], p[2])
InitSpawn ==
    InitFrom({SpawnAndGrab(MenuOpenAt(CubeTile), "cube"),
              SpawnAndGrab(MenuOpenAt(SphereTile), "sphere")})
NextSpawn ==
    \/ CursorPos({Centre})
    \/ MousePress
    \/ MouseRelease
    \/ ProcessInput({NoKeys}, {PhysicsTimestep})
    \/ UpdateEngine
    \/ RenderScene
SpecSpawn == InitSpawn /\ [][NextSpawn]_vars


\* ------------------------------------------------- frames without input
\* one pass of the main loop's body with no callback and no key down
NoInputFrame(a, dt) ==
    LET a1 == processInput(a, NoKeys, dt)
        a2 == updateEngine(a1, dt)
    IN [renderScene(a2).app EXCEPT !.mouseLeftReleased = FALSE]

\* frame times of the two runs: the float32 values of 7812500 ns, 7812501 ns,
\* 8854167 ns and 16666667 ns, the last one equal to float32(1/60)
RunDeltas == {8388608, 8388609, 9507089, 17895698}

RunAFrame ==
    /\ twin.framesA < MaxRunFrames
    /\ \E dt \in RunDeltas :
          LET n == AccumulateAndStep(processInput(app, NoKeys, dt), dt).steps
          IN /\ app' = NoInputFrame(app, dt)
             /\ deltaTime' = dt
             /\ steps' = n
             /\ twin' = [twin EXCEPT !.totalA = @ + dt, !.framesA = @ + 1,
                                     !.stepsA = @ + n]
    /\ prev' = app
    /\ op' = "frameA"
    /\ UNCHANGED <<pc, frame, events, buttonDown, uiLog, menuOpenedHolding, start,
                   hist, call>>

RunBFrame ==
    /\ twin.framesB < MaxRunFrames
    /\ \E dt \in RunDeltas :
          LET n == AccumulateAndStep(processInput(twin.app, NoKeys, dt), dt).steps
          IN /\ twin' = [twin EXCEPT !.app = NoInputFrame(twin.app, dt),
                                     !.totalB = @ + dt, !.framesB = @ + 1,
                                     !.stepsB = @ + n]
             /\ deltaTime' = dt
             /\ steps' = n
    /\ prev' = twin.app
    /\ op' = "frameB"
    /\ UNCHANGED <<app, pc, frame, events, buttonDown, uiLog, menuOpenedHolding, start,
                   hist, call>>

\* two runs of the program from the same scene, without user input
InitRuns == InitWith({<<CubeInAir>>})
NextRuns == RunAFrame \/ RunBFrame
SpecRuns == InitRuns /\ [][NextRuns]_vars

\* ------------------------------------------------------ physics alone
\* a cube as the factory builds it, then scaled, moved and set in motion the
\* way the sliders and a throw do
CubeWith(y, scaleY, vel, spin) ==
    [createGameObject("Cube_1", <<0, y, 0>>, CubeMin, CubeMax) EXCEPT
        !.Scale = <<ScaleOne, scaleY, ScaleOne>>,
        !.Velocity = vel, !.AngularVelocity = spin]

\* lowest point of an object, as updatePhysics computes it
LowestPointY(obj) == obj.Position[2] + MulDiv(obj.BBMin[2], obj.Scale[2], ScaleOne)

StartScales == {500, ScaleOne, 2000, 5000}
StartHeights == {0, LenScale, (9 * LenScale) \div 2}
\* the last one is the upward velocity that one step of gravity cancels
StartVelocities == {Zero3, <<0, 0, -ThrowForceMagnitude>>, <<12000, 16000, 0>>,
                    <<0, -GravityStep, 0>>}
StartSpins == {Zero3, <<300, -700, 0>>}

InitPhysics ==
    /\ \E sy \in StartScales, h \in StartHeights, v \in StartVelocities, w \in StartSpins :
          \* h is the height of the lowest point above the ground
          app = [initApp EXCEPT
                    !.objects = Append(@, CubeWith(h + (sy * HalfUnit) \div ScaleOne, sy, v, w)),
                    !.nextObjectID = @ + 1,
                    !.selectedObject = 2]
    /\ start = app
    /\ twin = TwinOf(initApp)
    /\ hist = NoHist
    /\ call = NoCall
    /\ pc = "engine"
    /\ frame = 0
    /\ events = 0
    /\ buttonDown = FALSE
    /\ deltaTime = 0
    /\ uiLog = <<>>
    /\ op = "init"
    /\ prev = app
    /\ steps = 0
    /\ menuOpenedHolding = 0

\* one call of updatePhysics(PhysicsTimestep)
PhysicsStep ==
    /\ steps < MaxSteps
    /\ app' = updatePhysics(app)
    /\ prev' = app
    /\ op' = "physics"
    /\ steps' = steps + 1
    /\ UNCHANGED <<pc, frame, events, buttonDown, deltaTime, uiLog,
                   menuOpenedHolding, start, twin, hist, call>>

NextPhysics == PhysicsStep
SpecPhysics == InitPhysics /\ [][NextPhysics]_vars
\* the driving loop keeps calling updatePhysics as time passes
SpecPhysicsFair == SpecPhysics /\ WF_vars(PhysicsStep)


\* ------------------------------------------------ functions on their own
\* the program at rest while one of its functions is called on its own
AtRest(a) ==
    /\ app = a
    /\ start = a
    /\ prev = a
    /\ twin = TwinOf(initApp)
    /\ hist = NoHist
    /\ pc = "call"
    /\ frame = 0
    /\ events = 0
    /\ buttonDown = FALSE
    /\ deltaTime = 0
    /\ uiLog = <<>>
    /\ op = "init"
    /\ steps = 0
    /\ menuOpenedHolding = 0

\* ray origins, direction components and box extents (min, max) per axis; the
\* quotients of the slab test are exact for these
SlabOrigins == {<<0, 0, 0>>, <<0, 0, 5 * LenScale>>, <<2 * LenScale, 0, 2 * LenScale>>,
                <<0, 3 * LenScale, 3 * LenScale>>}
SlabComponents == {-DirScale, 0, DirScale \div 2, DirScale}
SlabExtents == {<<-HalfUnit, HalfUnit>>, <<LenScale, 2 * LenScale>>,
                <<HalfUnit, -HalfUnit>>, <<0, 0>>}

InitSlab ==
    /\ AtRest(initApp)
    /\ \E o \in SlabOrigins, dx, dy, dz \in SlabComponents, ex, ey, ez \in SlabExtents :
          call = [name |-> "arguments", o |-> o, d |-> <<dx, dy, dz>>,
                  bMin |-> <<ex[1], ey[1], ez[1]>>, bMax |-> <<ex[2], ey[2], ez[2]>>]

\* intersectRayAABB called with the arguments drawn
SlabCall ==
    /\ call.name = "arguments"
    /\ call' = [call EXCEPT !.name = "intersectRayAABB"]
                  @@ [out |-> intersectRayAABB(call.o, call.d, call.bMin, call.bMax)]
    /\ UNCHANGED <<app, pc, frame, events, buttonDown, deltaTime, uiLog, op, prev, steps,
                   menuOpenedHolding, start, twin, hist>>

NextSlab == SlabCall
SpecSlab == InitSlab /\ [][NextSlab]_vars


\* the camera at the origin looking down -Z with the cursor at the screen
\* centre, and three cubes: two anywhere along or beside the centre ray, the
\* third in front, plain or scaled and turned
PickDepths == {-3 * LenScale, -5 * LenScale, -10 * LenScale - HalfUnit,
               -12 * LenScale, 5 * LenScale}
PickOffsets == {0, 2 * LenScale}
PickScales == {ScaleOne, 3 * ScaleOne}

InitPick ==
    /\ call = NoCall
    /\ \E za, zb \in PickDepths, xa, xb \in PickOffsets,
          zc \in {-5 * LenScale, -7 * LenScale}, sc \in PickScales, held \in {0, 2} :
          LET a0 == [initApp EXCEPT !.cameraPos = Zero3,
                                    !.mousePosX = Centre[1], !.mousePosY = Centre[2]]
              a1 == Populate(a0, << <<xa, 0, za>>, <<xb, 0, zb>>, <<0, 0, zc>> >>)
          IN AtRest([a1 EXCEPT !.objects[4].Scale = <<sc, sc, sc>>,
                               !.objects[4].Rotation = <<0, 47124, 0>>,
                               !.objects[2].IsKinematic = (held = 2),
                               !.heldObject = held])

\* tryPickObject called on the scene drawn
PickCall ==
    /\ call.name = "none"
    /\ app' = tryPickObject(app)
    /\ prev' = app
    /\ op' = "pick"
    /\ call' = [name |-> "tryPickObject"]
    /\ UNCHANGED <<pc, frame, events, buttonDown, deltaTime, uiLog, steps,
                   menuOpenedHolding, start, twin, hist>>

NextPick == PickCall
SpecPick == InitPick /\ [][NextPick]_vars

\* ================================================================ claims
Objects == 1..Len(app.objects)
ButtonCalls == {i \in 1..Len(uiLog) : uiLog[i].kind = "button"}

\* C1: a widget acquires activeUIElement only when the field is empty, so a
\* widget that holds it never loses it to another widget's claim: every
\* widget call that changes the field found it empty.
C1_AcquireOnlyWhenEmpty ==
    \A i \in 1..Len(uiLog) :
        uiLog[i].after # uiLog[i].before => uiLog[i].before = ""

\* C2: handleButton returns clicked = TRUE exactly when the pointer is inside
\* its rect, mouseLeftReleased is set and activeUIElement is its label when
\* it is called; every other call returns FALSE.
C2_ClickContract ==
    \A i \in ButtonCalls :
        uiLog[i].clicked <=>
            (uiLog[i].isOver /\ uiLog[i].released /\ uiLog[i].before = uiLog[i].id)
\* a release frame with the pointer on a button that does not hold the token
C2_Witness ==
    \E i \in ButtonCalls :
        uiLog[i].isOver /\ uiLog[i].released /\ uiLog[i].before # uiLog[i].id
                        /\ ~uiLog[i].clicked

\* C3: a press while the mouse is grabbed, no UI element is active and
\* nothing is held makes the object the pick ray selects the held object,
\* kinematic and motionless; a press whose pick selects nothing, or with a
\* UI element active, leaves heldObject and all objects as they were.
C3_PickTransition ==
    op = "press" =>
        LET t == PickTarget(prev)
        IN /\ (prev.isMouseGrabbed /\ prev.activeUIElement = "" /\ prev.heldObject = 0
                 /\ t # 0)
                => /\ app.heldObject = t
                   /\ app.objects[t].IsKinematic
                   /\ app.objects[t].Velocity = Zero3
                   /\ app.objects[t].AngularVelocity = Zero3
           /\ (t = 0 \/ prev.activeUIElement # "")
                => /\ app.heldObject = prev.heldObject
                   /\ app.objects = prev.objects
\* a press that picked up a moving object
C3_Witness ==
    /\ op = "press" /\ prev.heldObject = 0 /\ app.heldObject # 0
    /\ prev.objects[app.heldObject].Velocity # Zero3
    /\ ~prev.objects[app.heldObject].IsKinematic

\* C4: a release while an object is held makes it non-kinematic with
\* Velocity = cameraFront * ThrowForceMagnitude, clears its AngularVelocity
\* unless isRotatingHeldObject was set (then it is kept), and leaves
\* heldObject nil and isRotatingHeldObject false.
C4_ReleaseTransition ==
    (op = "release" /\ prev.heldObject # 0) =>
        LET h == prev.heldObject
        IN /\ ~app.objects[h].IsKinematic
           /\ app.objects[h].Velocity =
                  VMulDiv(prev.cameraFront, ThrowForceMagnitude, DirScale)
           /\ app.objects[h].AngularVelocity =
                  IF prev.isRotatingHeldObject
                  THEN prev.objects[h].AngularVelocity ELSE Zero3
           /\ app.heldObject = 0
           /\ ~app.isRotatingHeldObject
\* a release in mid-rotation that keeps the spin
C4_Witness ==
    /\ op = "release" /\ prev.heldObject # 0 /\ prev.isRotatingHeldObject
    /\ app.objects[prev.heldObject].AngularVelocity # Zero3
    /\ app.heldObject = 0

\* C5: when processInput opens the spawn menu (E key edge) while an object is
\* held, that call releases it with the release side effects, and until the
\* end of that frame heldObject stays nil and the object non-kinematic.
C5_ForcedRelease ==
    (menuOpenedHolding # 0 /\ op \in {"input", "engine", "render"}) =>
        LET h == menuOpenedHolding
        IN /\ app.heldObject = 0
           /\ ~app.objects[h].IsKinematic
           /\ op = "input" =>
                 /\ app.isEGUIVisible
                 /\ ~app.isRotatingHeldObject
                 /\ app.objects[h].Velocity =
                        VMulDiv(prev.cameraFront, ThrowForceMagnitude, DirScale)
\* the end of a frame whose processInput opened the menu while holding
C5_Witness ==
    menuOpenedHolding # 0 /\ op = "render" /\ app.heldObject = 0

\* C6: after updatePhysics has run, every kinematic object has zero Velocity
\* and zero AngularVelocity, whatever they were before.
C6_KinematicAtRest ==
    (op = "engine" /\ steps >= 1) =>
        \A i \in Objects :
            prev.objects[i].IsKinematic =>
                /\ app.objects[i].Velocity = Zero3
                /\ app.objects[i].AngularVelocity = Zero3
\* a step that found a kinematic (held) object spinning
C6_Witness ==
    /\ op = "engine" /\ steps >= 1
    /\ \E i \in Objects :
          /\ prev.objects[i].IsKinematic
          /\ prev.objects[i].AngularVelocity # Zero3
          /\ app.objects[i].AngularVelocity = Zero3

\* C7: a frame that starts with accumulator a and lasts d calls updatePhysics
\* exactly floor((a + d) / PhysicsTimestep) times and leaves the accumulator
\* at a + d - n * PhysicsTimestep, so within [0, PhysicsTimestep).
C7_ExactAccumulator ==
    op = "frameA" =>
        LET a == prev.physicsAccumulator
        IN /\ steps = (a + deltaTime) \div PhysicsTimestep
           /\ app.physicsAccumulator = a + deltaTime - steps * PhysicsTimestep
           /\ 0 <= app.physicsAccumulator
           /\ app.physicsAccumulator < PhysicsTimestep
\* the part of C7 that float32 arithmetic keeps: the accumulator ends every
\* frame within [0, PhysicsTimestep)
C7_AccumulatorInRange ==
    /\ 0 <= app.physicsAccumulator /\ app.physicsAccumulator < PhysicsTimestep
    /\ 0 <= twin.app.physicsAccumulator /\ twin.app.physicsAccumulator < PhysicsTimestep

\* C8: two runs from the same scene with accumulator 0 and no input whose
\* frame times sum to the same total have made the same number of physics
\* steps and hold every object with the same position, rotation, velocity
\* and IsGrounded, however the total is split into frames.
C8_FrameRateIndependence ==
    twin.totalA = twin.totalB =>
        /\ twin.stepsA = twin.stepsB
        /\ \A i \in Objects :
              /\ app.objects[i].Position = twin.app.objects[i].Position
              /\ app.objects[i].Rotation = twin.app.objects[i].Rotation
              /\ app.objects[i].Velocity = twin.app.objects[i].Velocity
              /\ app.objects[i].IsGrounded = twin.app.objects[i].IsGrounded

\* the objects C9 speaks of: non-kinematic, lowest point on the ground plane,
\* no vertical velocity when the steps begin
RestingAtStart ==
    {i \in Objects : /\ ~start.objects[i].IsKinematic
                     /\ LowestPointY(start.objects[i]) = GroundPlaneY
                     /\ start.objects[i].Velocity[2] = 0}
\* C9: after each of any number of consecutive updatePhysics steps, an object
\* that began them non-kinematic, with its lowest point on the ground plane
\* and no vertical velocity, has vertical velocity 0 and the Position.y it
\* began with.
C9_RestingStaysPut ==
    \A i \in RestingAtStart :
        /\ app.objects[i].Velocity[2] = 0
        /\ app.objects[i].Position[2] = start.objects[i].Position[2]
\* several steps into a run of a scaled cube that began sliding on the ground
C9_Witness ==
    /\ op = "physics" /\ steps >= 3
    /\ 2 \in RestingAtStart
    /\ start.objects[2].Scale[2] # ScaleOne
    /\ start.objects[2].Velocity # Zero3
    /\ app.objects[2].IsGrounded

\* the drop scenario: unit cube, scale 1, origin at y = 5, at rest
DropStart ==
    /\ Len(start.objects) = 2
    /\ ~start.objects[2].IsKinematic
    /\ start.objects[2].BBMin = CubeMin /\ start.objects[2].BBMax = CubeMax
    /\ start.objects[2].Scale = <<ScaleOne, ScaleOne, ScaleOne>>
    /\ start.objects[2].Position[2] = 5 * LenScale
    /\ start.objects[2].Velocity = Zero3
Landed == app.objects[2].Position[2] = HalfUnit /\ app.objects[2].IsGrounded
\* C10: the dropped cube reaches, after finitely many steps, Position.y = 0.5
\* with IsGrounded set, and keeps both after every later step.
C10_DropLands == (DropStart /\ start = app) => <>[]Landed
\* the dropped cube on the ground, having fallen the 4.5 m
C10_Witness ==
    /\ DropStart /\ Landed /\ op = "physics"
    /\ prev.objects[2].Position[2] > HalfUnit
    /\ ~prev.objects[2].IsGrounded

\* the call of intersectRayAABB that has been made, if any
SlabDone == call.name = "intersectRayAABB"
BoxOrdered == \A i \in 1..3 : call.bMin[i] <= call.bMax[i]
\* the point origin + t x dir
RayPoint(t) == [i \in 1..3 |-> call.o[i] + (t * call.d[i]) \div DirScale]
RayPointInBox(t) ==
    \A i \in 1..3 : call.bMin[i] <= RayPoint(t)[i] /\ RayPoint(t)[i] <= call.bMax[i]
\* where the ray crosses the six planes of the box, and its origin: the first
\* point of the ray inside the box, if there is one, is at one of these
RayCrossings ==
    {0} \cup {((b - call.o[i]) * DirScale) \div call.d[i] :
                 <<i, b>> \in {<<j, c>> \in (1..3) \X ({call.bMin[j] : j \in 1..3}
                                                    \cup {call.bMax[j] : j \in 1..3}) :
                                 call.d[j] # 0 /\ c \in {call.bMin[j], call.bMax[j]}}}
RayHitTimes == {t \in RayCrossings : t >= 0 /\ RayPointInBox(t)}

\* C11: for a box with min <= max on every axis, intersectRayAABB reports a
\* hit exactly when some point origin + t x dir with t >= 0 lies in the box,
\* and the distance it returns is the smallest such t.
C11_SlabTest ==
    (SlabDone /\ BoxOrdered) =>
        /\ call.out.hit <=> RayHitTimes # {}
        /\ call.out.hit => \A t \in RayHitTimes : call.out.dist <= t
        /\ call.out.hit => call.out.dist \in RayHitTimes
\* a ray from outside with a zero component on an axis whose slab holds the
\* origin, hitting at a positive distance
C11_Witness ==
    /\ SlabDone /\ BoxOrdered
    /\ \E i \in 1..3 : call.d[i] = 0 /\ call.bMin[i] <= call.o[i] /\ call.o[i] <= call.bMax[i]
    /\ call.out.hit /\ call.out.dist > 0

\* C12: a box with min > max on at least one axis is never reported as
\* intersected, whether or not the ray is parallel to that axis.
C12_InvertedBoxMisses ==
    (SlabDone /\ ~BoxOrdered) => ~call.out.hit

\* the objects tryPickObject tests: all but the ground plane and the held one
PickCandidates(a) ==
    {i \in 1..Len(a.objects) : a.objects[i].ID # "GroundPlane" /\ i # a.heldObject}
\* the ray against the world-space box of object i: the local box scaled
\* component by component and translated, the rotation left out
WorldBoxHit(a, i) ==
    LET obj == a.objects[i]
        lo == [k \in 1..3 |-> obj.Position[k] + (obj.BBMin[k] * obj.Scale[k]) \div ScaleOne]
        hi == [k \in 1..3 |-> obj.Position[k] + (obj.BBMax[k] * obj.Scale[k]) \div ScaleOne]
    IN intersectRayAABB(a.cameraPos, getRayDirection(a), lo, hi)
PickInRange(a) ==
    {i \in PickCandidates(a) : WorldBoxHit(a, i).hit /\ WorldBoxHit(a, i).dist < PickupRange}
PickNearest(a) ==
    {i \in PickInRange(a) :
        \A j \in PickInRange(a) :
            \/ WorldBoxHit(a, i).dist < WorldBoxHit(a, j).dist
            \/ (WorldBoxHit(a, i).dist = WorldBoxHit(a, j).dist /\ i <= j)}
\* the unit cube centred at (0, 0, -5)
CubeFiveAhead(a, i) ==
    /\ a.objects[i].Position = <<0, 0, -5 * LenScale>>
    /\ a.objects[i].Scale = <<ScaleOne, ScaleOne, ScaleOne>>
    /\ a.objects[i].BBMin = CubeMin /\ a.objects[i].BBMax = CubeMax

\* C13: tryPickObject selects, among the objects other than the ground plane
\* and the held one whose world-space box the ray hits at a distance below
\* PickupRange, the nearest (the first in insertion order on a tie), and
\* nothing when there is none; the unit cube centred at (0, 0, -5) is hit by
\* the centre ray of a camera at the origin at distance 4.5.
C13_PickSelection ==
    op = "pick" =>
        /\ PickInRange(prev) = {} => app = prev
        /\ PickInRange(prev) # {} => app.heldObject \in PickNearest(prev)
        /\ \A i \in PickCandidates(prev) :
              CubeFiveAhead(prev, i) =>
                 /\ WorldBoxHit(prev, i).hit
                 /\ 2 * WorldBoxHit(prev, i).dist = 9 * LenScale
                 /\ PickInRange(prev) = {i} => app.heldObject = i
\* a pick between two cubes in range and one held in front of them: the
\* nearer of the two is selected, at less than the distance of the other
C13_Witness ==
    /\ op = "pick" /\ prev.heldObject = 2
    /\ PickInRange(prev) = {3, 4}
    /\ app.heldObject = 4
    /\ WorldBoxHit(prev, 4).dist < WorldBoxHit(prev, 3).dist
    /\ WorldBoxHit(prev, 2).hit /\ WorldBoxHit(prev, 2).dist < WorldBoxHit(prev, 4).dist

\* C14: while an object is held, at the end of every updateEngine (so when
\* the objects of that frame are drawn) its Position is
\* cameraPos + cameraFront x holdDistance, from the pick-up frame on.
C14_HeldFollowsCamera ==
    (op = "engine" /\ app.heldObject # 0) =>
        \A k \in 1..3 :
            app.objects[app.heldObject].Position[k] =
                app.cameraPos[k] + MulDiv(app.cameraFront[k], app.holdDistance, DirScale)
\* the updateEngine of a frame that moved the held object to a distance the
\* scroll wheel has changed, the camera turned away from -Z
C14_Witness ==
    /\ op = "engine" /\ app.heldObject # 0
    /\ app.holdDistance # InitialHoldDistance
    /\ app.cameraFront # <<0, 0, -DirScale>>
    /\ app.objects[app.heldObject].Position # prev.objects[app.heldObject].Position

\* C15: holdDistance stays within [MinHoldDistance, MaxHoldDistance]; a scroll
\* event while an object is held sets it to holdDistance - yoff x
\* ScrollSensitivity clamped to that range, a scroll event while nothing is
\* held leaves it as it is, and nothing else changes it.
C15_HoldDistanceClamped ==
    /\ MinHoldDistance <= app.holdDistance /\ app.holdDistance <= MaxHoldDistance
    /\ op = "init" => app.holdDistance = InitialHoldDistance
    /\ (op = "scroll" /\ prev.heldObject # 0) =>
          LET want == prev.holdDistance - call.yoff * ScrollSensitivity
          IN app.holdDistance = IF want < MinHoldDistance THEN MinHoldDistance
                                ELSE IF want > MaxHoldDistance THEN MaxHoldDistance
                                ELSE want
    /\ (op = "scroll" /\ prev.heldObject = 0) => app.holdDistance = prev.holdDistance
    /\ op \notin {"init", "scroll"} => app.holdDistance = prev.holdDistance
\* a scroll away from the camera that the upper bound cut short
C15_Witness ==
    /\ op = "scroll" /\ prev.heldObject # 0
    /\ prev.holdDistance - call.yoff * ScrollSensitivity > MaxHoldDistance
    /\ app.holdDistance = MaxHoldDistance

\* the value the scale_x slider is bound to
ScaleXValue(a) == a.objects[a.selectedObject].Scale[1]
\* min + ((pointerX - trackStart) / trackWidth) x (max - min), clamped
SliderExpected(pointerX, min, max) ==
    LET dx == pointerX - SliderTrackX
    IN IF dx <= 0 THEN min
       ELSE IF dx >= SliderTrackWidth THEN max
       ELSE min + (dx * (max - min)) \div SliderTrackWidth

\* C16: in every frame in which the slider holds activeUIElement when it is
\* called, its value after the call is min + ((pointerX - trackStart) /
\* trackWidth) x (max - min) clamped to [min, max]: min for a pointer left of
\* the track, max for one right of it, never out of range.
C16_SliderMapping ==
    (op = "render" /\ prev.activeUIElement = "scale_x") =>
        /\ ScaleXValue(app) = SliderExpected(prev.mousePosX, ScaleMin, ScaleMax)
        /\ prev.mousePosX < SliderTrackX => ScaleXValue(app) = ScaleMin
        /\ prev.mousePosX > SliderTrackX + SliderTrackWidth => ScaleXValue(app) = ScaleMax
        /\ ScaleMin <= ScaleXValue(app) /\ ScaleXValue(app) <= ScaleMax
\* a frame that moved the value to a tenth of the range
C16_Witness ==
    /\ op = "render" /\ prev.activeUIElement = "scale_x"
    /\ prev.mousePosX = SliderTrackX + 23
    /\ ScaleXValue(app) = 509
    /\ ScaleXValue(prev) # ScaleXValue(app)

\* C17: the button pressed with the pointer at the start of the track, the
\* pointer dragged to the end of the track and the button released there: the
\* value is the maximum after the release, however the events fall into
\* frames.
C17_DragToEnd ==
    (op = "release" /\ prev.mousePosX = SliderTrackX + SliderTrackWidth
                    /\ prev.mousePosY = SliderRowY) =>
        ScaleXValue(app) = ScaleMax

\* C18: a cursor callback, a press callback or a processInput that starts with
\* activeUIElement non-empty leaves the camera position, yaw and pitch as they
\* were, and the two callbacks leave heldObject as it was.
C18_UIPriority ==
    (op \in {"cursor", "press", "input"} /\ prev.activeUIElement # "") =>
        /\ app.cameraPos = prev.cameraPos
        /\ app.yaw = prev.yaw
        /\ app.pitch = prev.pitch
        /\ app.cameraFront = prev.cameraFront
        /\ op \in {"cursor", "press"} => app.heldObject = prev.heldObject
\* a processInput with W down and the mouse grabbed, a widget active
C18_Witness ==
    /\ op = "input" /\ call.keys.w
    /\ prev.isMouseGrabbed /\ ~prev.isRotatingHeldObject
    /\ prev.activeUIElement # ""
    /\ app.cameraPos = prev.cameraPos

\* C19: every release clears activeUIElement, whichever widget held it, and
\* it is empty whenever the button is up: no widget takes it between a
\* release and the next press.
C19_ActiveOnlyWhileDown ==
    /\ op = "release" => app.activeUIElement = ""
    /\ ~buttonDown => app.activeUIElement = ""
\* a frame drawn with the button up after a release, the pointer on a slider
\* that does not take activeUIElement
C19_Witness ==
    /\ op = "render" /\ ~buttonDown /\ hist.released
    /\ \E i \in 1..Len(uiLog) : uiLog[i].isOver /\ uiLog[i].kind = "slider"
    /\ app.activeUIElement = ""

\* C20: at the end of every frame, the pressed flag has been seen set in
\* exactly one widget evaluation since the last press, and the released flag
\* in exactly one since the last release.
C20_EdgeFlags ==
    op = "render" =>
        /\ hist.pressed => hist.pressedSeen = 1
        /\ hist.released => hist.releasedSeen = 1
\* C20 as the code has it: mouseLeftPressed is the state of the button (set
\* from the press to the release, through every widget evaluation between
\* them), and mouseLeftReleased is set from a release to the end of its frame
\* or to a press in the same PollEvents, so it is seen set in at most one
\* widget evaluation per release.
C20_LevelAndEdge ==
    /\ app.mouseLeftPressed = buttonDown
    /\ app.mouseLeftReleased => (~buttonDown /\ hist.released /\ hist.releasedSeen = 0)
    /\ hist.releasedSeen <= 1
    /\ (op = "render" /\ prev.mouseLeftReleased) => hist.releasedSeen = 1
    /\ pc = "poll" /\ events = 0 => ~app.mouseLeftReleased
\* the button held through two frames: the pressed flag seen in both, and the
\* released flag of an earlier release seen once
C20_Witness ==
    /\ hist.pressedSeen = SeenCap /\ buttonDown
    /\ hist.released /\ hist.releasedSeen = 1

\* C21: evaluating a slider clamps the float it is bound to into [min, max]:
\* after every frame's widget evaluation each component of the selected
\* object's Position lies within the range of its position slider and each
\* component of its Scale within the range of its scale slider, whatever
\* moved it there.
C21_SliderClampsBound ==
    (op = "render" /\ prev.selectedObject # 0) =>
        \A k \in 1..3 :
            /\ PosMin <= app.objects[app.selectedObject].Position[k]
            /\ app.objects[app.selectedObject].Position[k] <= PosMax
            /\ ScaleMin <= app.objects[app.selectedObject].Scale[k]
            /\ app.objects[app.selectedObject].Scale[k] <= ScaleMax

\* the largest pitch, 89 degrees
PitchLimit == 890
\* the condition under which a cursor event turns the camera
LookEnabled(a) == a.isMouseGrabbed /\ ~a.isRotatingHeldObject /\ a.activeUIElement = ""

\* C22: the pitch, 0 at the start, stays within 89 degrees of 0 whatever the
\* cursor events, and every mouse-look event adds dx x sensitivity to the yaw
\* and dy x sensitivity to the pitch before the pitch is clamped (dx and dy
\* taken from the last mouse-look position, 0 for the first event).
C22_PitchClamped ==
    /\ -PitchLimit <= app.pitch /\ app.pitch <= PitchLimit
    /\ op = "init" => app.pitch = 0
    /\ (op = "cursor" /\ LookEnabled(prev)) =>
          LET dx == IF prev.firstMouse THEN 0 ELSE app.mousePosX - prev.mouseLastX
              dy == IF prev.firstMouse THEN 0 ELSE prev.mouseLastY - app.mousePosY
              want == prev.pitch + dy
          IN /\ app.yaw = prev.yaw + dx
             /\ app.pitch = IF want > PitchLimit THEN PitchLimit
                            ELSE IF want < -PitchLimit THEN -PitchLimit
                            ELSE want
\* a mouse-look event that would have taken the pitch from +89 to below -89
C22_Witness ==
    /\ op = "cursor" /\ LookEnabled(prev) /\ ~prev.firstMouse
    /\ prev.pitch = PitchLimit
    /\ prev.pitch + (prev.mouseLastY - app.mousePosY) < -PitchLimit
    /\ app.pitch = -PitchLimit
    /\ app.yaw # prev.yaw

\* C30: a mouse-look event turns the camera by the cursor displacement since
\* the cursor event before it, or not at all when mouse-look has been off in
\* between; it never adds a displacement that goes back further, such as the
\* one made while a held object was being rotated.
C30_NoStaleLook ==
    (op = "cursor" /\ LookEnabled(prev)) =>
        /\ app.yaw - prev.yaw \in {0, app.mousePosX - prev.mousePosX}
        /\ app.pitch \in {prev.pitch,
                          Clamp(prev.pitch + (prev.mousePosY - app.mousePosY),
                                -PitchLimit, PitchLimit)}

\* where updateEngine puts the object held in state a
HoldTarget(a) == VAdd(a.cameraPos, VMulDiv(a.cameraFront, a.holdDistance, DirScale))

\* C23: in a frame in which an object is held, its Position has been set to
\* cameraPos + cameraFront x holdDistance before the frame's physics steps
\* run: the steps of an updateEngine find the held object at that point.
C23_PoseBeforePhysics ==
    (op = "engine" /\ steps >= 1 /\ prev.heldObject # 0) =>
        AccumulateAndStep(prev, deltaTime).app.objects[prev.heldObject].Position
            = HoldTarget(prev)

\* C24: while the held object is being rotated, each physics step advances
\* its Rotation by its AngularVelocity x fixedDt, so the rotation changes in
\* every frame that starts its update with an angular velocity the cursor has
\* set, also when physics steps run in that frame.
C24_RotationIntegrated ==
    (op = "engine" /\ prev.heldObject # 0 /\ prev.isRotatingHeldObject
                   /\ prev.objects[prev.heldObject].AngularVelocity # Zero3) =>
        LET h == prev.heldObject
        IN /\ app.objects[h].Rotation # prev.objects[h].Rotation
           /\ steps >= 1 =>
                 app.objects[h].Rotation =
                     VAdd(prev.objects[h].Rotation,
                          VMulDiv(prev.objects[h].AngularVelocity, steps, 1))

\* the pointer of state a is on the first row of the scene list
OnListRow(a) ==
    isMouseOver(a, uiPadding + uiPadding,
                uiPadding + uiButtonHeight + uiElementSpacing + uiTextHeight
                    + uiElementSpacing,
                uiPanelWidth - uiPadding * 2, uiButtonHeight)

\* C25: within every frame the widgets are evaluated, and may take
\* activeUIElement, before the frame's pick and camera movement, these before
\* the physics steps, these before the held-object fixup, and that before the
\* frame is drawn. So a press with the pointer on a widget is the widget's
\* and picks nothing up, the processInput of a frame whose button is down
\* comes after a widget evaluation that saw the press, and at the end of
\* updateEngine the held object is where the fixup puts it.
C25_FrameOrder ==
    /\ (op = "press" /\ OnListRow(prev)) => app.heldObject = prev.heldObject
    /\ (op = "input" /\ buttonDown) => hist.pressedSeen >= 1
    /\ (op = "engine" /\ app.heldObject # 0) =>
          app.objects[app.heldObject].Position = HoldTarget(app)
    /\ op = "render" => uiLog # <<>>

\* the lowest point of object o after gravity and its velocity have been
\* integrated over one step, before the ground test
IntegratedLowestY(o) ==
    o.Position[2] + o.Velocity[2] + GravityStep + MulDiv(o.BBMin[2], o.Scale[2], ScaleOne)

\* C26: after every updatePhysics step each non-kinematic object with
\* Scale.y > 0 has its lowest point at or above GroundPlaneY; IsGrounded is
\* true exactly when the integrated lowest point of the step was strictly
\* below GroundPlaneY, and then the lowest point is on the plane, the vertical
\* velocity 0 and the horizontal and the angular velocity 0.9 of what they
\* were; otherwise the step has only integrated.
C26_GroundContact ==
    op = "physics" =>
        \A i \in Objects :
            (~prev.objects[i].IsKinematic /\ prev.objects[i].Scale[2] > 0) =>
                LET o == prev.objects[i]
                    n == app.objects[i]
                    vy == o.Velocity[2] + GravityStep
                IN /\ LowestPointY(n) >= GroundPlaneY
                   /\ n.IsGrounded <=> IntegratedLowestY(o) < GroundPlaneY
                   /\ IntegratedLowestY(o) < GroundPlaneY =>
                         /\ LowestPointY(n) = GroundPlaneY
                         /\ n.Velocity = <<MulDiv(o.Velocity[1], 9, 10), 0,
                                           MulDiv(o.Velocity[3], 9, 10)>>
                         /\ n.AngularVelocity = VMulDiv(o.AngularVelocity, 9, 10)
                   /\ IntegratedLowestY(o) >= GroundPlaneY =>
                         /\ n.Position[2] = o.Position[2] + vy
                         /\ n.Velocity = <<o.Velocity[1], vy, o.Velocity[3]>>
                         /\ n.AngularVelocity = o.AngularVelocity
\* a scaled cube coming down on the plane while flying forward and spinning:
\* snapped, its forward and angular velocity damped
C26_Witness ==
    /\ op = "physics"
    /\ ~prev.objects[2].IsGrounded /\ app.objects[2].IsGrounded
    /\ LowestPointY(prev.objects[2]) > GroundPlaneY
    /\ IntegratedLowestY(prev.objects[2]) < GroundPlaneY
    /\ prev.objects[2].Scale[2] # ScaleOne
    /\ app.objects[2].Velocity[3] # 0
    /\ app.objects[2].Velocity[3] # prev.objects[2].Velocity[3]
    /\ app.objects[2].AngularVelocity # Zero3
    /\ LowestPointY(app.objects[2]) = GroundPlaneY

\* C27: a press with the pointer inside a button's rect, at least one frame
\* drawn with the button down, then a release with the pointer still inside:
\* the handleButton call of that button returns clicked = TRUE in the frame
\* of the release, and in no other frame.
C27_ClickReachable ==
    /\ (op = "render" /\ prev.mouseLeftReleased /\ hist.pressedSeen >= 1
                      /\ OnListRow(prev)) =>
          \E i \in ButtonCalls : uiLog[i].isOver /\ uiLog[i].clicked
    /\ (op = "render" /\ \E i \in ButtonCalls : uiLog[i].clicked) =>
          prev.mouseLeftReleased

====
